---- MODULE Spec2Model ----
(***************************************************************************)
(* Lung Carcinoma Insights: the server-side loader of the home route       *)
(* (app/routes/home.tsx).  One loader invocation issues the fixed GraphQL  *)
(* query through the generated SDK, awaits the response, and reshapes it   *)
(* into at most ten view rows: map with defaults, sort by overall score    *)
(* descending, slice(0, 10).                                               *)
(*                                                                         *)
(* Representation of JavaScript values:                                    *)
(*   - a value that may be null/undefined is a sequence of length at most  *)
(*     one: << >> is null/undefined, <<v>> is the value v;                 *)
(*   - a score is an integer number of score units (the comparator only    *)
(*     subtracts scores and looks at the sign, which scaling preserves);   *)
(*   - a thrown TypeError is the two-element sequence TypeError.           *)
(***************************************************************************)
EXTENDS Integers, Sequences, FiniteSets, Bags, TLC

VARIABLES
    pc, queries, response, result, thrown,  \* the loader invocation
    upstream,                               \* what the upstream API holds
    openId, tabById, view,                  \* AssociationTable: state, render output
    changed,                                \* history: ids whose tab was changed
    chart, svg, tooltip,                    \* a mounted chart component and its DOM
    renders,                                \* history: effect runs since the mount
    hovered, focused,                       \* the chart element under the pointer, in focus
    word, formatted                         \* formatLabel: its argument, its result

loaderVars == <<pc, queries, response, result, thrown>>

pageVars == <<upstream, openId, tabById, view, changed>>

chartVars == <<chart, svg, tooltip, renders, hovered, focused>>

labelVars == <<word, formatted>>

vars == <<pc, queries, response, result, thrown,
          upstream, openId, tabById, view, changed,
          chart, svg, tooltip, renders, hovered, focused,
          word, formatted>>

(***************************************************************************)
(* Bounds of the model.                                                    *)
(***************************************************************************)
MaxScore == 2
MaxLen == 3
MaxBulk == 11
MaxDt == 2

(***************************************************************************)
(* Program constant: .slice(0, 10)                                         *)
(***************************************************************************)
TopN == 10

Min(a, b) == IF a <= b THEN a ELSE b

(***************************************************************************)
(* JavaScript null/undefined, `??`, `?.` and `.`                           *)
(***************************************************************************)
Absent == << >>

Some(v) == <<v>>

TypeError == <<"TypeError", "Cannot read properties of undefined">>

Opt(S) == {Absent} \cup {Some(v) : v \in S}

\* x ?? d
Coalesce(x, d) == IF x = Absent THEN d ELSE x[1]

\* o?.f  (every field of a raw object is itself a nullable value)
OptChain(o, f) == IF o = Absent THEN Absent ELSE o[1][f]

\* o.f : reading a property of null/undefined throws
Dot(o, f) == IF o = Absent THEN TypeError ELSE o[1][f]

(***************************************************************************)
(* The raw query result (LungCarcinomaAssociatedTargetsQuery), with every  *)
(* level nullable as the loader's optional chaining allows for.            *)
(***************************************************************************)
Ids == {"ENSG1", "ENSG2"}
Symbols == {"EGFR"}
Names == {"epidermal growth factor receptor"}
DtIds == {"known_drug", "literature"}
Scores == 0..MaxScore

RawTarget == [id : Opt(Ids), approvedSymbol : Opt(Symbols), approvedName : Opt(Names)]

RawDatatypeScore == [id : Opt(DtIds), score : Opt(Scores)]

SeqUpTo(S, n) == UNION {[1..k -> S] : k \in 0..n}

RawRowOf(T, S, D) == [target : T, score : S, datatypeScores : D]

\* every shape of a single raw row
FullRows ==
    Opt(RawRowOf(Opt(RawTarget), Opt(Scores),
                 Opt(SeqUpTo(Opt(RawDatatypeScore), MaxDt))))

\* the rows used in lists of several rows: well-formed but for the score
RankTarget(i) ==
    Some([id |-> Some(i), approvedSymbol |-> Some("EGFR"), approvedName |-> Absent])

RankDatatypeScores(i) ==
    IF i = "ENSG1"
    THEN Some(<<Some([id |-> Some("literature"), score |-> Some(0)]),
                Some([id |-> Some("known_drug"), score |-> Some(MaxScore)])>>)
    ELSE Some(<<Some([id |-> Some("known_drug"), score |-> Some(1)])>>)

RankRows ==
    {Absent} \cup
    {Some([target |-> RankTarget(i), score |-> s,
           datatypeScores |-> RankDatatypeScores(i)]) :
        i \in Ids, s \in Opt(Scores)}

BulkRows == {r \in RankRows : r # Absent /\ r[1].target = RankTarget("ENSG1")}

Repeat(x, k) == [i \in 1..k |-> x]

\* the row lists the upstream may answer with
RowLists ==
    {<<r>> : r \in FullRows}
    \cup SeqUpTo(RankRows, MaxLen)
    \cup {h \o Repeat(b, k) \o t :
            h \in SeqUpTo(RankRows, 1), t \in SeqUpTo(RankRows, 1),
            b \in BulkRows, k \in (TopN - 2)..MaxBulk}

DataOf(rowsOpt) ==
    Some([disease |-> Some([associatedTargets |-> Some([rows |-> rowsOpt])])])

Responses ==
    {Some([disease |-> Absent]),
     Some([disease |-> Some([associatedTargets |-> Absent])]),
     DataOf(Absent)}
    \cup {DataOf(Some(l)) : l \in RowLists}

Errors == {"ClientError", "FetchError"}

(***************************************************************************)
(* The ranking transform of the loader.                                    *)
(***************************************************************************)
\* mutant: data.disease.associatedTargets.rows ?? []
RowsContainerStrict(data) ==
    LET d == Dot(data, "disease")
        a == IF d = TypeError THEN TypeError ELSE Dot(d, "associatedTargets")
        r == IF a = TypeError THEN TypeError ELSE Dot(a, "rows")
    IN  IF r = TypeError THEN TypeError ELSE Coalesce(r, << >>)

\* data.disease?.associatedTargets?.rows ?? []
RowsContainer(data) ==
    LET d == Dot(data, "disease")
    IN  IF d = TypeError THEN TypeError
        ELSE Coalesce(OptChain(OptChain(d, "associatedTargets"), "rows"), << >>)

\* (d) => ({ id: d?.id ?? "", score: d?.score ?? 0 })
ToDatatypeScore(d) ==
    [id |-> Coalesce(OptChain(d, "id"), ""),
     score |-> Coalesce(OptChain(d, "score"), 0)]

\* mutant: entries without a score are filtered out before the map
DatatypeScoresOfFiltered(r) ==
    LET ds == SelectSeq(Coalesce(OptChain(r, "datatypeScores"), << >>),
                        LAMBDA d : OptChain(d, "score") # Absent)
    IN  [k \in 1..Len(ds) |-> ToDatatypeScore(ds[k])]

\* (r?.datatypeScores ?? []).map(...)
DatatypeScoresOf(r) ==
    LET ds == Coalesce(OptChain(r, "datatypeScores"), << >>)
    IN  [k \in 1..Len(ds) |-> ToDatatypeScore(ds[k])]

\* r?.target?.id ?? ""
IdOf(r) == Coalesce(OptChain(OptChain(r, "target"), "id"), "")

\* mutant: approvedSymbol: r?.target?.id ?? ""
SymbolOfFromId(r) == Coalesce(OptChain(OptChain(r, "target"), "id"), "")

\* r?.target?.approvedSymbol ?? ""
SymbolOf(r) == Coalesce(OptChain(OptChain(r, "target"), "approvedSymbol"), "")

\* mutant: approvedName: r?.target?.id ?? ""
NameOfFromId(r) == Coalesce(OptChain(OptChain(r, "target"), "id"), "")

\* r?.target?.approvedName ?? ""
NameOf(r) == Coalesce(OptChain(OptChain(r, "target"), "approvedName"), "")

\* mutant: r?.score ?? 1
ScoreOfDefaultOne(r) == Coalesce(OptChain(r, "score"), 1)

\* r?.score ?? 0
ScoreOf(r) == Coalesce(OptChain(r, "score"), 0)

ToViewRow(r) ==
    [id |-> IdOf(r),
     approvedSymbol |-> SymbolOf(r),
     approvedName |-> NameOf(r),
     score |-> ScoreOf(r),
     datatypeScores |-> DatatypeScoresOf(r)]

Map(raw) == [i \in 1..Len(raw) |-> ToViewRow(raw[i])]

\* mutant: (a, b) => a.score - b.score
compareAscending(a, b) == a.score - b.score

\* (a, b) => b.score - a.score
compare(a, b) == b.score - a.score

\* mutant: an unstable sort that puts x before the elements it ties with
InsertBeforeTies(s, x) ==
    LET after == {i \in 1..Len(s) : compare(s[i], x) >= 0}
        pos == IF after = {} THEN Len(s) + 1
               ELSE CHOOSE i \in after : \A j \in after : i <= j
    IN  SubSeq(s, 1, pos - 1) \o <<x>> \o SubSeq(s, pos, Len(s))

\* Array.prototype.sort is stable: x goes after every element that does not
\* have to come after it.
Insert(s, x) ==
    LET after == {i \in 1..Len(s) : compare(s[i], x) > 0}
        pos == IF after = {} THEN Len(s) + 1
               ELSE CHOOSE i \in after : \A j \in after : i <= j
    IN  SubSeq(s, 1, pos - 1) \o <<x>> \o SubSeq(s, pos, Len(s))

RECURSIVE SortFrom(_, _)
SortFrom(done, rest) ==
    IF rest = << >> THEN done
    ELSE SortFrom(Insert(done, Head(rest)), Tail(rest))

sort(s) == SortFrom(<< >>, s)

\* mutant: the last (to - from) elements instead of the first
sliceLast(s, from, to) == SubSeq(s, Len(s) - Min(to - from, Len(s)) + 1, Len(s))

\* Array.prototype.slice(from, to), 0 <= from <= to
slice(s, from, to) == SubSeq(s, from + 1, Min(to, Len(s)))

\* mutant: .slice(0, 11)
rankOffByOne(raw) == slice(sort(Map(raw)), 0, TopN + 1)

rank(raw) == slice(sort(Map(raw)), 0, TopN)

(***************************************************************************)
(* The loader as a process: issue the query, await, map or fail.           *)
(***************************************************************************)
\* useState<Record<string, 0 | 1>>({})
NoTabs == [id \in {} |-> 0]

\* the children of the chart's <svg>, by selector
EmptySvg ==
    [bars |-> << >>, xTicks |-> << >>, yTicks |-> << >>,
     rings |-> << >>, spokes |-> << >>, ringLabels |-> << >>,
     axisLabels |-> << >>, paths |-> << >>, points |-> << >>, texts |-> << >>]

\* nothing mounted yet
PageIdle ==
    /\ openId = Absent
    /\ tabById = NoTabs
    /\ view = Absent
    /\ changed = {}

ChartIdle ==
    /\ chart = Absent
    /\ svg = EmptySvg
    /\ tooltip = << >>
    /\ renders = "none"
    /\ hovered = Absent
    /\ focused = Absent

LabelIdle ==
    /\ word = << >>
    /\ formatted = Absent

LoaderIdle ==
    /\ pc = "idle"
    /\ queries = 0
    /\ response = Absent
    /\ result = Absent
    /\ thrown = Absent

Init ==
    /\ LoaderIdle
    /\ upstream = Absent
    /\ PageIdle
    /\ ChartIdle
    /\ LabelIdle

\* const sdk = getSdk(getClient()); sdk.lungCarcinomaAssociatedTargets()
LoaderStart ==
    /\ pc = "idle"
    /\ pc' = "awaiting"
    /\ queries' = queries + 1
    /\ UNCHANGED <<response, result, thrown>>
    /\ UNCHANGED <<pageVars, chartVars, labelVars>>

\* client.request resolves with the data of the response
RequestResolve ==
    /\ pc = "awaiting"
    /\ \E d \in Responses : response' = Some([ok |-> TRUE, data |-> d, error |-> ""])
    /\ pc' = "settled"
    /\ UNCHANGED <<queries, result, thrown>>
    /\ UNCHANGED <<pageVars, chartVars, labelVars>>

\* client.request rejects (network, HTTP or GraphQL error)
RequestReject ==
    /\ pc = "awaiting"
    /\ \E e \in Errors : response' = Some([ok |-> FALSE, data |-> Absent, error |-> e])
    /\ pc' = "settled"
    /\ UNCHANGED <<queries, result, thrown>>
    /\ UNCHANGED <<pageVars, chartVars, labelVars>>

\* the await yields data; the rows are computed and returned
LoaderReturn ==
    /\ pc = "settled"
    /\ response[1].ok
    /\ LET raw == RowsContainer(response[1].data)
       IN  IF raw = TypeError
           THEN /\ pc' = "failed"
                /\ thrown' = Some("TypeError")
                /\ UNCHANGED result
           ELSE /\ pc' = "returned"
                /\ result' = Some([rows |-> rank(raw)])
                /\ UNCHANGED thrown
    /\ UNCHANGED <<queries, response>>
    /\ UNCHANGED <<pageVars, chartVars, labelVars>>

\* mutant: the failure is caught and an empty result returned
LoaderCatchReturnEmpty ==
    /\ pc = "settled"
    /\ ~response[1].ok
    /\ pc' = "returned"
    /\ result' = Some([rows |-> << >>])
    /\ UNCHANGED <<queries, response, thrown>>
    /\ UNCHANGED <<pageVars, chartVars, labelVars>>

\* the await throws; nothing catches it
LoaderThrow ==
    /\ pc = "settled"
    /\ ~response[1].ok
    /\ pc' = "failed"
    /\ thrown' = Some(response[1].error)
    /\ UNCHANGED <<queries, response, result>>
    /\ UNCHANGED <<pageVars, chartVars, labelVars>>

Next ==
    \/ LoaderStart
    \/ RequestResolve
    \/ RequestReject
    \/ LoaderReturn
    \/ LoaderThrow

Spec == Init /\ [][Next]_vars

(***************************************************************************)
(* What the properties below read from a state.                            *)
(***************************************************************************)
Resolved == response # Absent /\ response[1].ok

Rejected == response # Absent /\ ~response[1].ok

Returned == pc = "returned"

\* the rows list of the resolved response, if every container is there
HasRows ==
    /\ Resolved
    /\ response[1].data[1].disease # Absent
    /\ response[1].data[1].disease[1].associatedTargets # Absent
    /\ response[1].data[1].disease[1].associatedTargets[1].rows # Absent

In == IF HasRows
      THEN response[1].data[1].disease[1].associatedTargets[1].rows[1]
      ELSE << >>

Out == result[1].rows

BagOfSeq(s) ==
    [x \in {s[i] : i \in DOMAIN s} |-> Cardinality({i \in DOMAIN s : s[i] = x})]

WithScore(s, v) == SelectSeq(s, LAMBDA x : x.score = v)

IsPrefix(s, t) == Len(s) <= Len(t) /\ SubSeq(t, 1, Len(s)) = s

MissingScore(r) == r = Absent \/ r[1].score = Absent

\* the overall score the defaulting policy prescribes for a raw row
ExpectedScore(r) == IF MissingScore(r) THEN 0 ELSE r[1].score[1]

ExpectedScores(raw) == [i \in DOMAIN raw |-> ExpectedScore(raw[i])]

ScoresOf(viewRows) == [i \in DOMAIN viewRows |-> viewRows[i].score]

(***************************************************************************)
(* C1: the loader returns exactly min(number of raw rows, 10) view rows:   *)
(* never more than 10, and all of them when fewer than 10 exist.           *)
(***************************************************************************)
C1_LengthIsMin ==
    Returned =>
        /\ Len(Out) = Min(Len(In), TopN)
        /\ Len(Out) <= 10
        /\ (Len(In) < 10 => Len(Out) = Len(In))

C1_Witness == Returned /\ Len(In) > TopN /\ Len(Out) = TopN

(***************************************************************************)
(* C2: the returned rows are sorted non-increasing by overall score; for   *)
(* the input [ENSG1 with the lower score, ENSG2 with the higher score] the *)
(* output is [ENSG2, ENSG1].                                               *)
(***************************************************************************)
C2_Example ==
    /\ Len(In) = 2
    /\ ~MissingScore(In[1]) /\ ~MissingScore(In[2])
    /\ In[1][1].target = RankTarget("ENSG1")
    /\ In[2][1].target = RankTarget("ENSG2")
    /\ In[1][1].score[1] < In[2][1].score[1]

C2_SortedDescending ==
    Returned =>
        /\ \A i \in 1..(Len(Out) - 1) : Out[i].score >= Out[i + 1].score
        /\ C2_Example => [i \in 1..2 |-> Out[i].id] = <<"ENSG2", "ENSG1">>

C2_Witness ==
    /\ Returned
    /\ C2_Example
    /\ [i \in 1..2 |-> Out[i].id] = <<"ENSG2", "ENSG1">>

(***************************************************************************)
(* C3: the ranking is stable: for every score, the returned rows with that *)
(* score are the first of the input's rows with that score, in the input's *)
(* order (so a tie across the cut at 10 keeps the earlier input rows).     *)
(***************************************************************************)
C3_Stable ==
    Returned =>
        \A v \in {Out[i].score : i \in DOMAIN Out} :
            IsPrefix(WithScore(Out, v), WithScore(Map(In), v))

C3_Witness ==
    /\ Returned
    /\ Len(Out) = TopN
    /\ LET v == Out[TopN].score
           kept == WithScore(Out, v)
           tied == WithScore(Map(In), v)
       IN  /\ Len(tied) > Len(kept)
           /\ tied[Len(kept)] # tied[Len(kept) + 1]

(***************************************************************************)
(* C4: the returned rows are the top rows: each is the defaulted image of  *)
(* a distinct raw row, and no omitted row has an overall score strictly    *)
(* greater than a returned row's.                                          *)
(***************************************************************************)
Omitted == BagOfSeq(Map(In)) (-) BagOfSeq(Out)

C4_TopRowsOnly ==
    Returned =>
        /\ BagOfSeq(Out) \sqsubseteq BagOfSeq(Map(In))
        /\ \A x \in BagToSet(Omitted) : \A i \in DOMAIN Out : x.score <= Out[i].score

C4_Witness ==
    /\ Returned
    /\ \E x \in BagToSet(Omitted) : x.score < Out[TopN].score
    /\ \E x \in BagToSet(Omitted) : x.score = Out[TopN].score

(***************************************************************************)
(* C5: a raw row without a score gets overall score 0, and a row that      *)
(* came from a raw row without a score is never placed before a row with a *)
(* strictly positive explicit score.                                       *)
(***************************************************************************)
FromMissingScore(v) == \E i \in DOMAIN In : MissingScore(In[i]) /\ ToViewRow(In[i]) = v

FromPositiveScore(v) ==
    \E i \in DOMAIN In :
        ~MissingScore(In[i]) /\ In[i][1].score[1] > 0 /\ ToViewRow(In[i]) = v

C5_MissingScoreIsZero ==
    Returned =>
        /\ Len(In) <= TopN => BagOfSeq(ScoresOf(Out)) = BagOfSeq(ExpectedScores(In))
        /\ \A i \in DOMAIN Out : FromMissingScore(Out[i]) => Out[i].score = 0
        /\ \A i, j \in DOMAIN Out :
              (i < j) => ~(FromMissingScore(Out[i]) /\ FromPositiveScore(Out[j]))

C5_Witness ==
    /\ Returned
    /\ Len(In) = 2
    /\ MissingScore(In[1]) /\ In[1] # Absent
    /\ ~MissingScore(In[2]) /\ In[2][1].score[1] > 0
    /\ Out[1].score > 0 /\ Out[2].score = 0

(***************************************************************************)
(* The fields the defaulting policy prescribes for a raw row.              *)
(***************************************************************************)
HasTarget(r) == r # Absent /\ r[1].target # Absent

ExpectedId(r) ==
    IF HasTarget(r) /\ r[1].target[1].id # Absent THEN r[1].target[1].id[1] ELSE ""

ExpectedSymbol(r) ==
    IF HasTarget(r) /\ r[1].target[1].approvedSymbol # Absent
    THEN r[1].target[1].approvedSymbol[1] ELSE ""

SourceDatatypeScores(r) ==
    IF r # Absent /\ r[1].datatypeScores # Absent THEN r[1].datatypeScores[1] ELSE << >>

ExpectedDatatypeScore(d) ==
    [id |-> IF d # Absent /\ d[1].id # Absent THEN d[1].id[1] ELSE "",
     score |-> IF d # Absent /\ d[1].score # Absent THEN d[1].score[1] ELSE 0]

ExpectedDatatypeScores(r) ==
    [k \in DOMAIN SourceDatatypeScores(r) |->
        ExpectedDatatypeScore(SourceDatatypeScores(r)[k])]

NameSupplied(r) == HasTarget(r) /\ r[1].target[1].approvedName # Absent

(***************************************************************************)
(* C6: when the query succeeds but the disease, its associatedTargets or   *)
(* the rows container is absent, or the rows list is empty, the loader     *)
(* returns an empty rows list and does not fail.                           *)
(***************************************************************************)
C6_AbsentContainerIsEmpty ==
    (Resolved /\ pc \in {"returned", "failed"} /\ (~HasRows \/ In = << >>)) =>
        /\ pc = "returned"
        /\ thrown = Absent
        /\ result = Some([rows |-> << >>])

C6_Witness ==
    /\ Returned
    /\ response[1].data[1].disease = Absent
    /\ result = Some([rows |-> << >>])

(***************************************************************************)
(* C7: malformed rows never raise: a missing target or target id gives id  *)
(* "", a missing symbol gives approvedSymbol "", a missing datatypeScores  *)
(* list gives an empty list, a missing id or score inside an entry gives   *)
(* "" or 0, and every field that is present is copied unchanged.           *)
(***************************************************************************)
C7_Fields(v) == <<v.id, v.approvedSymbol, v.datatypeScores>>

C7_Expected(r) == <<ExpectedId(r), ExpectedSymbol(r), ExpectedDatatypeScores(r)>>

C7_DefaultsNeverRaise ==
    /\ Resolved => pc # "failed" /\ thrown = Absent
    /\ (Returned /\ Len(In) <= TopN) =>
          BagOfSeq([i \in DOMAIN Out |-> C7_Fields(Out[i])])
              = BagOfSeq([i \in DOMAIN In |-> C7_Expected(In[i])])

C7_Witness ==
    /\ Returned
    /\ Len(In) = 1 /\ In[1] # Absent
    /\ In[1][1].target = Absent
    /\ Len(SourceDatatypeScores(In[1])) = 2
    /\ SourceDatatypeScores(In[1])[1] # Absent
    /\ SourceDatatypeScores(In[1])[1][1].id = Absent
    /\ SourceDatatypeScores(In[1])[1][1].score = Some(1)
    /\ SourceDatatypeScores(In[1])[2] # Absent
    /\ SourceDatatypeScores(In[1])[2][1].score = Absent
    /\ SourceDatatypeScores(In[1])[2][1].id # Absent
    /\ Out = <<[id |-> "", approvedSymbol |-> "", approvedName |-> "",
                score |-> ExpectedScore(In[1]),
                datatypeScores |->
                    <<[id |-> "", score |-> 1],
                      [id |-> SourceDatatypeScores(In[1])[2][1].id[1], score |-> 0]>>]>>

(***************************************************************************)
(* C8: a view row's approvedName is the source target's approved name      *)
(* whenever the source supplies one; only when the name is absent does it  *)
(* take the default (the empty string, or the entity id in the fallback    *)
(* variant).                                                               *)
(***************************************************************************)
C8_NameOk(v, r) ==
    IF NameSupplied(r)
    THEN v.approvedName = r[1].target[1].approvedName[1]
    ELSE v.approvedName \in {"", ExpectedId(r)}

C8_NameFromSource ==
    Returned =>
        /\ Len(In) = 1 => C8_NameOk(Out[1], In[1])
        /\ \A i \in DOMAIN Out :
              \E j \in DOMAIN In :
                  Out[i].id = ExpectedId(In[j]) /\ C8_NameOk(Out[i], In[j])

C8_Witness ==
    /\ Returned
    /\ Len(In) = 1
    /\ NameSupplied(In[1])
    /\ In[1][1].target[1].id # Absent
    /\ Out[1].approvedName = "epidermal growth factor receptor"
    /\ Out[1].id # ""

(***************************************************************************)
(* C9: every returned row's datatypeScores has the length and the element  *)
(* order of its source row's list: sorting the rows never reorders or      *)
(* drops the category scores inside a row.                                 *)
(***************************************************************************)
C9_SameDatatypeScores(v, r) ==
    LET src == SourceDatatypeScores(r)
    IN  /\ Len(v.datatypeScores) = Len(src)
        /\ \A k \in DOMAIN src :
              /\ (src[k] # Absent /\ src[k][1].id # Absent)
                    => v.datatypeScores[k].id = src[k][1].id[1]
              /\ (src[k] # Absent /\ src[k][1].score # Absent)
                    => v.datatypeScores[k].score = src[k][1].score[1]

C9_DatatypeScoresOrderKept ==
    Returned =>
        /\ Len(In) = 1 => C9_SameDatatypeScores(Out[1], In[1])
        /\ \A i \in DOMAIN Out :
              \E j \in DOMAIN In :
                  /\ Out[i].id = ExpectedId(In[j])
                  /\ Out[i].score = ExpectedScore(In[j])
                  /\ C9_SameDatatypeScores(Out[i], In[j])

C9_Witness ==
    /\ Returned
    /\ Len(In) = 2 /\ Len(Out) = 2
    /\ Out[1].id = "ENSG1" /\ Out[2].id = "ENSG2"
    /\ ExpectedId(In[1]) = "ENSG2"
    /\ Out[1].score > Out[2].score
    /\ Len(Out[1].datatypeScores) = 2
    /\ Out[1].datatypeScores[1].score < Out[1].datatypeScores[2].score
    /\ C9_SameDatatypeScores(Out[1], In[2])

(***************************************************************************)
(* C10: a loader invocation issues exactly one upstream query; if the      *)
(* query fails the loader fails with that error: no retry, no second       *)
(* query, and no rows result after a failed fetch.                         *)
(***************************************************************************)
C10_State ==
    /\ queries <= 1
    /\ pc # "idle" => queries = 1
    /\ Rejected =>
          /\ result = Absent
          /\ pc \in {"settled", "failed"}
          /\ pc = "failed" => thrown = Some(response[1].error)

C10_Step ==
    Rejected => /\ pc' = "failed"
                /\ thrown' = Some(response[1].error)
                /\ queries' = queries
                /\ result' = Absent

C10_OneQueryFailFast == [][C10_Step]_vars /\ []C10_State

C10_Witness ==
    /\ pc = "failed"
    /\ Rejected
    /\ thrown = Some("ClientError")
    /\ queries = 1
    /\ result = Absent

(***************************************************************************)
(* Strings.  A string is read character by character through Chars, which  *)
(* lists the characters of every string the model uses.                    *)
(***************************************************************************)
Chars(s) ==
    CASE s = "" -> <<>>
      [] s = "epidermal growth factor receptor" -> <<"e", "p", "i", "d", "e", "r", "m", "a", "l", " ", "g", "r", "o", "w", "t", "h", " ", "f", "a", "c", "t", "o", "r", " ", "r", "e", "c", "e", "p", "t", "o", "r">>
      [] s = "KRAS proto-oncogene, GTPase" -> <<"K", "R", "A", "S", " ", "p", "r", "o", "t", "o", "-", "o", "n", "c", "o", "g", "e", "n", "e", ",", " ", "G", "T", "P", "a", "s", "e">>
      [] s = "known_drug" -> <<"k", "n", "o", "w", "n", "_", "d", "r", "u", "g">>
      [] s = "literature" -> <<"l", "i", "t", "e", "r", "a", "t", "u", "r", "e">>
      [] s = "genetic_association" -> <<"g", "e", "n", "e", "t", "i", "c", "_", "a", "s", "s", "o", "c", "i", "a", "t", "i", "o", "n">>
      [] s = "ENSG1" -> <<"E", "N", "S", "G", "1">>
      [] s = "ENSG2" -> <<"E", "N", "S", "G", "2">>
      [] s = "EGFR" -> <<"E", "G", "F", "R">>
      [] s = "KRAS" -> <<"K", "R", "A", "S">>
      [] s = "TP53" -> <<"T", "P", "5", "3">>

RECURSIVE Join(_)
Join(cs) == IF cs = << >> THEN "" ELSE Head(cs) \o Join(Tail(cs))

\* the characters encodeURIComponent leaves alone
Unreserved ==
    {"A", "B", "C", "D", "E", "F", "G", "H", "I", "J", "K", "L", "M",
     "N", "O", "P", "Q", "R", "S", "T", "U", "V", "W", "X", "Y", "Z",
     "a", "b", "c", "d", "e", "f", "g", "h", "i", "j", "k", "l", "m",
     "n", "o", "p", "q", "r", "s", "t", "u", "v", "w", "x", "y", "z",
     "0", "1", "2", "3", "4", "5", "6", "7", "8", "9", "-", "_", ".",
     "!", "~", "*", "'", "(", ")"}

\* the UTF-8 percent-encoding of the other characters in use
PercentEncoded(c) ==
    CASE c = " " -> "%20"
      [] c = "," -> "%2C"
      [] c = "/" -> "%2F"
      [] c = ":" -> "%3A"
      [] c = "&" -> "%26"

encodeURIComponent(s) ==
    Join([k \in DOMAIN Chars(s) |->
            IF Chars(s)[k] \in Unreserved THEN Chars(s)[k]
            ELSE PercentEncoded(Chars(s)[k])])

ToUpperCase(c) ==
    CASE c = "a" -> "A" [] c = "b" -> "B" [] c = "c" -> "C" [] c = "d" -> "D"
      [] c = "e" -> "E" [] c = "f" -> "F" [] c = "g" -> "G" [] c = "h" -> "H"
      [] c = "i" -> "I" [] c = "j" -> "J" [] c = "k" -> "K" [] c = "l" -> "L"
      [] c = "m" -> "M" [] c = "n" -> "N" [] c = "o" -> "O" [] c = "p" -> "P"
      [] c = "q" -> "Q" [] c = "r" -> "R" [] c = "s" -> "S" [] c = "t" -> "T"
      [] c = "u" -> "U" [] c = "v" -> "V" [] c = "w" -> "W" [] c = "x" -> "X"
      [] c = "y" -> "Y" [] c = "z" -> "Z"
      [] OTHER -> c

(***************************************************************************)
(* The table of associations (AssociationTable) rendered by the home route *)
(* from the loader's rows.                                                 *)
(***************************************************************************)
MaxTableRows == 3

\* const { rows } = useLoaderData()
Rows == result[1].rows

\* mutant: the href is built from the raw name
TargetLinkNotEncoded(approvedName, approvedSymbol) ==
    [href |-> "https://platform.opentargets.org/target/" \o approvedName,
     target |-> "_blank",
     rel |-> "noreferrer",
     text |-> approvedSymbol]

\* function TargetLink({ approvedName, approvedSymbol })
TargetLink(approvedName, approvedSymbol) ==
    [href |-> "https://platform.opentargets.org/target/"
                \o encodeURIComponent(approvedName),
     target |-> "_blank",
     rel |-> "noreferrer",
     text |-> approvedSymbol]

\* mutant: tabById[eachRow.id] ?? 1
ActiveTabDefaultRadar(tabs, id) == IF id \in DOMAIN tabs THEN tabs[id] ELSE 1

\* const tab = tabById[eachRow.id] ?? 0
ActiveTab(tabs, id) == IF id \in DOMAIN tabs THEN tabs[id] ELSE 0

ChartTitle(row) == "Data Type Scores: " \o row.approvedSymbol \o " and lung carcinoma"

\* mutant: the two branches of the conditional are swapped
ChartElementSwapped(tab, row) ==
    [kind |-> IF tab = 0 THEN "radar" ELSE "bar",
     items |-> row.datatypeScores,
     title |-> ChartTitle(row)]

\* tab === 0 ? <BarChart items title /> : <RadarChart items title />
ChartElement(tab, row) ==
    [kind |-> IF tab = 0 THEN "bar" ELSE "radar",
     items |-> row.datatypeScores,
     title |-> ChartTitle(row)]

\* <Collapse in={...} unmountOnExit>: the children exist only while it is in
Collapse(in, children) == IF in THEN children ELSE << >>

\* mutant: <Collapse in={openId !== null}>
RowViewAnyOpen(eachRow, open, tabs) ==
    LET tab == ActiveTab(tabs, eachRow.id)
        isOpen == open # Absent
    IN  [toggleLabel |-> IF isOpen THEN "Collapse row" ELSE "Expand row",
         link |-> TargetLink(eachRow.approvedName, eachRow.approvedSymbol),
         nameCell |-> eachRow.approvedName,
         tabs |-> Collapse(isOpen, <<[selected |-> tab,
                                      labels |-> <<"Bar chart", "Radar chart">>]>>),
         charts |-> Collapse(isOpen, <<ChartElement(tab, eachRow)>>)]

\* the two table rows rendered for eachRow
RowView(eachRow, open, tabs) ==
    LET tab == ActiveTab(tabs, eachRow.id)
        isOpen == open = Some(eachRow.id)
    IN  [toggleLabel |-> IF isOpen THEN "Collapse row" ELSE "Expand row",
         link |-> TargetLink(eachRow.approvedName, eachRow.approvedSymbol),
         nameCell |-> eachRow.approvedName,
         tabs |-> Collapse(isOpen, <<[selected |-> tab,
                                      labels |-> <<"Bar chart", "Radar chart">>]>>),
         charts |-> Collapse(isOpen, <<ChartElement(tab, eachRow)>>)]

\* mutant: of the rows sharing an id only the first opens
RenderFirstOfId(rows, open, tabs) ==
    [i \in 1..Len(rows) |->
        RowView(rows[i],
                IF \E j \in 1..(i - 1) : rows[j].id = rows[i].id THEN Absent ELSE open,
                tabs)]

\* rows.map((eachRow) => ...)
Render(rows, open, tabs) == [i \in 1..Len(rows) |-> RowView(rows[i], open, tabs)]

\* the raw rows the table's row lists are made from
TableRawRows ==
    {Absent,
     Some([target |-> Some([id |-> Some("ENSG1"), approvedSymbol |-> Some("EGFR"),
                            approvedName |-> Some("epidermal growth factor receptor")]),
           score |-> Some(2),
           datatypeScores |-> Some(<<Some([id |-> Some("known_drug"), score |-> Some(1)]),
                                     Some([id |-> Some("literature"), score |-> Some(2)])>>)]),
     Some([target |-> Some([id |-> Some("ENSG2"), approvedSymbol |-> Some("KRAS"),
                            approvedName |-> Some("KRAS proto-oncogene, GTPase")]),
           score |-> Some(1),
           datatypeScores |-> Some(<< >>)]),
     Some([target |-> Some([id |-> Absent, approvedSymbol |-> Some("TP53"),
                            approvedName |-> Absent]),
           score |-> Absent,
           datatypeScores |-> Absent])}

\* the loader has returned; nothing is rendered yet
TableInit ==
    /\ \E l \in SeqUpTo(TableRawRows, MaxTableRows) :
          /\ response = Some([ok |-> TRUE, data |-> DataOf(Some(l)), error |-> ""])
          /\ result = Some([rows |-> rank(l)])
    /\ pc = "returned"
    /\ queries = 1
    /\ thrown = Absent
    /\ upstream = Absent
    /\ PageIdle
    /\ ChartIdle
    /\ LabelIdle

\* export default function Home(): first render of <AssociationTable rows={rows} />
HomeRender ==
    /\ pc = "returned"
    /\ view = Absent
    /\ openId' = Absent
    /\ tabById' = NoTabs
    /\ view' = Some(Render(Rows, Absent, NoTabs))
    /\ UNCHANGED <<loaderVars, upstream, changed, chartVars, labelVars>>

\* mutant: onClick={() => setOpenId(openId ? null : eachRow.id)}
ClickToggleCloseAny(i) ==
    /\ view # Absent
    /\ i \in DOMAIN Rows
    /\ openId' = IF openId # Absent THEN Absent ELSE Some(Rows[i].id)
    /\ view' = Some(Render(Rows, openId', tabById))
    /\ UNCHANGED <<loaderVars, upstream, tabById, changed, chartVars, labelVars>>

\* mutant: the toggle also resets the tabs, setTabById({})
ClickToggleResetTabs(i) ==
    /\ view # Absent
    /\ i \in DOMAIN Rows
    /\ openId' = IF openId = Some(Rows[i].id) THEN Absent ELSE Some(Rows[i].id)
    /\ tabById' = NoTabs
    /\ view' = Some(Render(Rows, openId', tabById'))
    /\ UNCHANGED <<loaderVars, upstream, changed, chartVars, labelVars>>

\* onClick={() => setOpenId(openId === eachRow.id ? null : eachRow.id)}
ClickToggle(i) ==
    /\ view # Absent
    /\ i \in DOMAIN Rows
    /\ openId' = IF openId = Some(Rows[i].id) THEN Absent ELSE Some(Rows[i].id)
    /\ view' = Some(Render(Rows, openId', tabById))
    /\ UNCHANGED <<loaderVars, upstream, tabById, changed, chartVars, labelVars>>

\* mutant: setTabById({ [eachRow.id]: value }), the other entries are dropped
ChangeTabNoSpread(i, value) ==
    /\ view # Absent
    /\ i \in DOMAIN Rows
    /\ view[1][i].tabs # << >>
    /\ view[1][i].tabs[1].selected # value
    /\ tabById' = (Rows[i].id :> value)
    /\ changed' = changed \cup {Rows[i].id}
    /\ view' = Some(Render(Rows, openId, tabById'))
    /\ UNCHANGED <<loaderVars, upstream, openId, chartVars, labelVars>>

\* onChange={(_, value) => setTabById((tabIds) => ({ ...tabIds, [eachRow.id]: value }))}
\* Tabs exist only in an expanded row and fire onChange for the tab not selected
ChangeTab(i, value) ==
    /\ view # Absent
    /\ i \in DOMAIN Rows
    /\ view[1][i].tabs # << >>
    /\ view[1][i].tabs[1].selected # value
    /\ tabById' = (Rows[i].id :> value) @@ tabById
    /\ changed' = changed \cup {Rows[i].id}
    /\ view' = Some(Render(Rows, openId, tabById'))
    /\ UNCHANGED <<loaderVars, upstream, openId, chartVars, labelVars>>

TableNext ==
    \/ HomeRender
    \/ \E i \in 1..MaxTableRows : ClickToggle(i)
    \/ \E i \in 1..MaxTableRows, value \in {0, 1} : ChangeTab(i, value)

TableSpec == TableInit /\ [][TableNext]_vars

(***************************************************************************)
(* What the properties of the table read from the render output.           *)
(***************************************************************************)
Rendered == view # Absent

RowExpanded(v, i) == v[1][i].toggleLabel = "Collapse row" /\ Len(v[1][i].tabs) = 1

RowCollapsed(v, i) == v[1][i].toggleLabel = "Expand row" /\ v[1][i].tabs = << >>

SelectedTab(v, i) == v[1][i].tabs[1].selected

(***************************************************************************)
(* C11: clicking the toggle of a collapsed row expands it (button          *)
(* "Collapse row", chart tabs shown), clicking the toggle of an expanded   *)
(* row collapses it (button "Expand row", no chart tabs); initially every  *)
(* row is collapsed.                                                       *)
(***************************************************************************)
C11_Step ==
    /\ HomeRender => \A i \in DOMAIN Rows : RowCollapsed(view', i)
    /\ \A i \in 1..MaxTableRows :
          ClickToggle(i) =>
              /\ RowCollapsed(view, i) => RowExpanded(view', i)
              /\ RowExpanded(view, i) => RowCollapsed(view', i)
              /\ RowCollapsed(view, i) \/ RowExpanded(view, i)

C11_ToggleExpandsCollapses == [][C11_Step]_vars

C11_Witness ==
    /\ Rendered
    /\ Len(Rows) >= 2
    /\ RowExpanded(view, 2)
    /\ RowCollapsed(view, 1)
    /\ view[1][2].tabs[1].labels = <<"Bar chart", "Radar chart">>

(***************************************************************************)
(* C12: a row whose tab has never been changed shows the bar chart tab     *)
(* (tab 0) as selected whenever it is expanded.  The tab of a row is the   *)
(* tab recorded for its id.                                                *)
(***************************************************************************)
C12_DefaultTabIsBar ==
    Rendered =>
        \A i \in DOMAIN Rows :
            (Rows[i].id \notin changed /\ RowExpanded(view, i)) => SelectedTab(view, i) = 0

C12_Witness ==
    /\ Rendered
    /\ \E i \in DOMAIN Rows :
          /\ Rows[i].id \notin changed
          /\ RowExpanded(view, i)
          /\ SelectedTab(view, i) = 0
          /\ \E id \in changed : tabById[id] = 1

(***************************************************************************)
(* C13: an expanded row renders exactly one chart, the bar chart when its  *)
(* active tab is 0 and the radar chart when it is 1, built from that row's *)
(* datatype scores and a title naming its symbol; selecting the radar tab  *)
(* makes it the selected tab and replaces the bar chart by the radar       *)
(* chart; a collapsed row renders no chart.                                *)
(***************************************************************************)
C13_ExpectedChart(kind, i) ==
    [kind |-> kind,
     items |-> Rows[i].datatypeScores,
     title |-> "Data Type Scores: " \o Rows[i].approvedSymbol \o " and lung carcinoma"]

C13_RecordedTab(i) == IF Rows[i].id \in DOMAIN tabById THEN tabById[Rows[i].id] ELSE 0

C13_State ==
    Rendered =>
        \A i \in DOMAIN Rows :
            /\ RowExpanded(view, i) =>
                  view[1][i].charts =
                      <<C13_ExpectedChart(IF C13_RecordedTab(i) = 0 THEN "bar" ELSE "radar", i)>>
            /\ RowCollapsed(view, i) => view[1][i].charts = << >>
            /\ RowExpanded(view, i) \/ RowCollapsed(view, i)

C13_Step ==
    \A i \in 1..MaxTableRows :
        ChangeTab(i, 1) =>
            /\ view[1][i].charts = <<C13_ExpectedChart("bar", i)>>
            /\ SelectedTab(view', i) = 1
            /\ view'[1][i].charts = <<C13_ExpectedChart("radar", i)>>

C13_OneChartPerExpandedRow == []C13_State /\ [][C13_Step]_vars

C13_Witness ==
    /\ Rendered
    /\ \E i \in DOMAIN Rows :
          /\ RowExpanded(view, i)
          /\ SelectedTab(view, i) = 1
          /\ Len(view[1][i].charts) = 1
          /\ view[1][i].charts[1].kind = "radar"
          /\ view[1][i].charts[1].title = "Data Type Scores: EGFR and lung carcinoma"
          /\ Len(view[1][i].charts[1].items) = 2

(***************************************************************************)
(* C14: every row's gene link points to                                    *)
(* https://platform.opentargets.org/target/ followed by the URL-encoded    *)
(* approvedName of the row, opens in a new tab (target _blank) with rel    *)
(* noreferrer, and shows the row's approved symbol.                        *)
(***************************************************************************)
C14_Encoded(name) ==
    CASE name = "" -> ""
      [] name = "epidermal growth factor receptor"
            -> "epidermal%20growth%20factor%20receptor"
      [] name = "KRAS proto-oncogene, GTPase" -> "KRAS%20proto-oncogene%2C%20GTPase"

C14_GeneLink ==
    Rendered =>
        \A i \in DOMAIN Rows :
            view[1][i].link =
                [href |-> "https://platform.opentargets.org/target/"
                            \o C14_Encoded(Rows[i].approvedName),
                 target |-> "_blank",
                 rel |-> "noreferrer",
                 text |-> Rows[i].approvedSymbol]

C14_Witness ==
    /\ Rendered
    /\ \E i \in DOMAIN Rows :
          /\ Rows[i].approvedName = "KRAS proto-oncogene, GTPase"
          /\ view[1][i].link.href =
                "https://platform.opentargets.org/target/KRAS%20proto-oncogene%2C%20GTPase"
          /\ view[1][i].link.text = "KRAS"

(***************************************************************************)
(* The page end to end: the upstream holds schema-conforming rows, the     *)
(* server answers the fixed query document with the fields the document    *)
(* selects, the loader ranks them and Home renders the table.              *)
(***************************************************************************)
MaxUpstream == 2

UpstreamNames == {"", "epidermal growth factor receptor"}

\* rows as the schema types them: every field present and non-null
UpstreamRows ==
    [target : [id : Ids, approvedSymbol : Symbols, approvedName : UpstreamNames],
     score : Scores,
     datatypeScores : SeqUpTo([id : {"known_drug"}, score : {1}], 1)]

\* the fields of target that LungCarcinomaAssociatedTargetsDocument selects
TargetSelection == {"id", "approvedSymbol"}

\* a field of the answer: present when selected, undefined otherwise
Selected(selection, object, field) ==
    IF field \in selection THEN Some(object[field]) ELSE Absent

\* the rows a GraphQL server returns for the document
Execute(rows) ==
    [i \in DOMAIN rows |->
        Some([target |->
                 Some([id |-> Selected(TargetSelection, rows[i].target, "id"),
                       approvedSymbol |->
                           Selected(TargetSelection, rows[i].target, "approvedSymbol"),
                       approvedName |->
                           Selected(TargetSelection, rows[i].target, "approvedName")]),
              score |-> Some(rows[i].score),
              datatypeScores |->
                 Some([j \in DOMAIN rows[i].datatypeScores |->
                          Some([id |-> Some(rows[i].datatypeScores[j].id),
                                score |-> Some(rows[i].datatypeScores[j].score)])])])]

PageInit ==
    /\ LoaderIdle
    /\ \E l \in SeqUpTo(UpstreamRows, MaxUpstream) : upstream = Some(l)
    /\ PageIdle
    /\ ChartIdle
    /\ LabelIdle

\* sdk.lungCarcinomaAssociatedTargets() resolves with the server's answer
ServerResolve ==
    /\ pc = "awaiting"
    /\ upstream # Absent
    /\ response' = Some([ok |-> TRUE,
                         data |-> DataOf(Some(Execute(upstream[1]))),
                         error |-> ""])
    /\ pc' = "settled"
    /\ UNCHANGED <<queries, result, thrown>>
    /\ UNCHANGED <<pageVars, chartVars, labelVars>>

PageNext ==
    \/ LoaderStart
    \/ ServerResolve
    \/ LoaderReturn
    \/ HomeRender

PageSpec == PageInit /\ [][PageNext]_vars

(***************************************************************************)
(* C15: the query requests the target's approved name, so for every        *)
(* upstream row whose target has a non-empty name the gene name cell       *)
(* displayed for that row is non-empty.                                    *)
(***************************************************************************)
C15_NameCellShown ==
    (Rendered /\ upstream # Absent) =>
        \A k \in DOMAIN upstream[1] :
            upstream[1][k].target.approvedName # "" =>
                \E i \in DOMAIN Rows :
                    /\ Rows[i].id = upstream[1][k].target.id
                    /\ Rows[i].score = upstream[1][k].score
                    /\ view[1][i].nameCell # ""

(***************************************************************************)
(* Numbers of the charts.  A JS number is modelled as an exact fraction    *)
(* in lowest terms; an angle is a fraction of pi radians.                  *)
(***************************************************************************)
RECURSIVE GCD(_, _)
GCD(a, b) == IF b = 0 THEN a ELSE GCD(b, a % b)

Abs(x) == IF x < 0 THEN -x ELSE x

Frac(n, d) ==
    LET sign == IF d < 0 THEN -1 ELSE 1
        g == GCD(Abs(n), Abs(d))
    IN  [num |-> (sign * n) \div g, den |-> (sign * d) \div g]

Num(n) == Frac(n, 1)

FAdd(a, b) == Frac(a.num * b.den + b.num * a.den, a.den * b.den)

FSub(a, b) == Frac(a.num * b.den - b.num * a.den, a.den * b.den)

FMul(a, b) == Frac(a.num * b.num, a.den * b.den)

FDiv(a, b) == Frac(a.num * b.den, a.den * b.num)

FLess(a, b) == a.num * b.den < b.num * a.den

\* d3.scaleLinear().domain([d0, d1]).range([r0, r1]) applied to x: the
\* normalised position t (0.5 on a collapsed domain) interpolated as
\* r0 * (1 - t) + r1 * t
scaleLinear(d0, d1, r0, r1, x) ==
    LET t == IF d0 = d1 THEN Frac(1, 2) ELSE FDiv(FSub(x, d0), FSub(d1, d0))
    IN  FAdd(FMul(r0, FSub(Num(1), t)), FMul(r1, t))

\* d3.format(".3f") of a non-negative number: three decimals, half rounded up
format3f(x) ==
    LET q == (2000 * x.num + x.den) \div (2 * x.den)
        whole == q \div 1000
        part == q % 1000
    IN  ToString(whole) \o "." \o
        (IF part < 10 THEN "00" ELSE IF part < 100 THEN "0" ELSE "") \o ToString(part)

\* d3.ticks(0, 1, count) for 1 <= count <= 10: the step 1 / count is rounded
\* to 1, 2 or 5 times a power of ten (thresholds sqrt 50, sqrt 10, sqrt 2)
ticks(count) ==
    LET factor == IF count = 1 THEN 10
                  ELSE IF 100 >= 50 * count * count THEN 10
                  ELSE IF 100 >= 10 * count * count THEN 5
                  ELSE IF 100 >= 2 * count * count THEN 2
                  ELSE 1
        inc == 10 \div factor
    IN  [i \in 1..(inc + 1) |-> Frac(i - 1, inc)]

(***************************************************************************)
(* formatLabel: s.replace(/_/g, ' ').split(' ').map(capitalise).join(' ')  *)
(***************************************************************************)
\* mutant: s.replace('_', ' ') replaces the first underscore only
replaceFirstUnderscore(cs) ==
    [i \in DOMAIN cs |->
        IF cs[i] = "_" /\ \A j \in 1..(i - 1) : cs[j] # "_" THEN " " ELSE cs[i]]

replaceUnderscores(cs) == [i \in DOMAIN cs |-> IF cs[i] = "_" THEN " " ELSE cs[i]]

RECURSIVE split(_)
split(cs) ==
    IF \A i \in DOMAIN cs : cs[i] # " "
    THEN <<cs>>
    ELSE LET k == CHOOSE i \in DOMAIN cs :
                      cs[i] = " " /\ \A j \in 1..(i - 1) : cs[j] # " "
         IN  <<SubSeq(cs, 1, k - 1)>> \o split(SubSeq(cs, k + 1, Len(cs)))

\* w.charAt(0).toUpperCase() + w.slice(1)
capitalise(w) == IF w = << >> THEN w ELSE <<ToUpperCase(w[1])>> \o Tail(w)

RECURSIVE join(_)
join(ws) ==
    IF Len(ws) = 1 THEN ws[1] ELSE ws[1] \o <<" ">> \o join(Tail(ws))

\* formatLabel on the characters of its argument
formatChars(cs) ==
    LET ws == split(replaceUnderscores(cs))
    IN  join([i \in DOMAIN ws |-> capitalise(ws[i])])

formatLabel(s) == Join(formatChars(Chars(s)))

(***************************************************************************)
(* The charts.  The children of the <svg> are kept by selector; a position *)
(* computed as (cos(a) * d, sin(a) * d) is kept in polar form, a in units  *)
(* of pi from the x axis towards the y axis (which points down).           *)
(***************************************************************************)
MaxItems == 3

ScoreSteps == 2

\* items a chart may be given: the scores 0, 1 / ScoreSteps, ..., 1 under
\* alternating ids, and an item whose score is missing
ChartItems ==
    {[id |-> IF k % 2 = 0 THEN "known_drug" ELSE "genetic_association",
      score |-> Some(Frac(k, ScoreSteps))] : k \in 0..ScoreSteps}
    \cup {[id |-> "literature", score |-> Absent]}

ChartTitles ==
    {"Data Type Scores: EGFR and lung carcinoma",
     "Data Type Scores: KRAS and lung carcinoma"}

\* items.map((d) => ({ label: formatLabel(d.id), value: d.score ?? 0 }))
Data(items) ==
    [i \in DOMAIN items |->
        [label |-> formatLabel(items[i].id), value |-> Coalesce(items[i].score, Num(0))]]

Polar(theta, rho) == [theta |-> theta, rho |-> rho]

\* the elements drawn are appended to what the <svg> holds
AppendAll(held, drawn) == [f \in DOMAIN held |-> held[f] \o drawn[f]]

(***************************************************************************)
(* BarChart                                                                *)
(***************************************************************************)
barHeight == 360

barWidth == 640

marginTop == 60

marginRight == 20

marginBottom == 60

marginLeft == 70

tickCount == 5

innerWidth == barWidth - marginLeft - marginRight

innerHeight == barHeight - marginTop - marginBottom

padding == Frac(3, 10)

\* the domain of a band scale keeps the first occurrence of each label
RECURSIVE Distinct(_)
Distinct(labels) ==
    IF labels = << >>
    THEN << >>
    ELSE LET front == Distinct(SubSeq(labels, 1, Len(labels) - 1))
             last == labels[Len(labels)]
         IN  IF \E i \in DOMAIN front : front[i] = last THEN front ELSE Append(front, last)

IndexOf(domain, label) == (CHOOSE i \in DOMAIN domain : domain[i] = label) - 1

\* d3.scaleBand().domain(labels).range([0, w]).padding(0.3)
bandStep(n, w) ==
    LET slots == FAdd(FSub(Num(n), padding), FMul(Num(2), padding))
    IN  FDiv(Num(w), IF FLess(slots, Num(1)) THEN Num(1) ELSE slots)

bandStart(n, w) ==
    FMul(FSub(Num(w), FMul(bandStep(n, w), FSub(Num(n), padding))), Frac(1, 2))

bandwidth(n, w) == FMul(bandStep(n, w), FSub(Num(1), padding))

x(domain, w, label) ==
    FAdd(bandStart(Len(domain), w), FMul(bandStep(Len(domain), w), Num(IndexOf(domain, label))))

\* mutant: range([0, h])
yNotInverted(h, value) == scaleLinear(Num(0), Num(1), Num(0), Num(h), value)

\* d3.scaleLinear().domain([0, 1]).range([h, 0])
y(h, value) == scaleLinear(Num(0), Num(1), Num(h), Num(0), value)

\* mutant: .ticks(2)
yAxisHalves(h) ==
    [k \in DOMAIN ticks(2) |-> [text |-> format3f(ticks(2)[k]), y |-> y(h, ticks(2)[k])]]

\* d3.axisLeft(y).ticks(5).tickFormat(formatTick)
yAxis(h) ==
    [k \in DOMAIN ticks(tickCount) |->
        [text |-> format3f(ticks(tickCount)[k]), y |-> y(h, ticks(tickCount)[k])]]

bars(data, w, h) ==
    LET domain == Distinct([i \in DOMAIN data |-> data[i].label])
    IN  [i \in DOMAIN data |->
            [x |-> x(domain, w, data[i].label),
             y |-> y(h, data[i].value),
             width |-> bandwidth(Len(domain), w),
             height |-> FSub(Num(h), y(h, data[i].value)),
             fill |-> "#1f77b4",
             title |-> data[i].label \o ": " \o format3f(data[i].value)]]

\* mutant: the band scale ranges over the outer width, range([0, width])
BarChartDrawOuterWidth(items, title) ==
    [EmptySvg EXCEPT
        !.bars = bars(Data(items), barWidth, innerHeight),
        !.xTicks = Distinct([i \in DOMAIN items |-> Data(items)[i].label]),
        !.yTicks = yAxis(innerHeight),
        !.texts = <<title, "Data Type", "Association Score">>]

BarChartDraw(items, title) ==
    [EmptySvg EXCEPT
        !.bars = bars(Data(items), innerWidth, innerHeight),
        !.xTicks = Distinct([i \in DOMAIN items |-> Data(items)[i].label]),
        !.yTicks = yAxis(innerHeight),
        !.texts = <<title, "Data Type", "Association Score">>]

(***************************************************************************)
(* RadarChart                                                              *)
(***************************************************************************)
radarWidth == 640

radarHeight == 500

radarMargin == 80

labelOffset == 20

\* Math.min(width, height) / 2 - margin
radius == FSub(FDiv(Num(Min(radarWidth, radarHeight)), Num(2)), Num(radarMargin))

\* mutant: domain([0, n - 1])
angleClosed(n, i) == scaleLinear(Num(0), Num(n - 1), Num(0), Num(2), Num(i))

\* d3.scaleLinear().domain([0, n]).range([0, 2 * Math.PI]), in units of pi
angle(n, i) == scaleLinear(Num(0), Num(n), Num(0), Num(2), Num(i))

\* d3.scaleLinear().domain([0, 1]).range([0, radius])
r(value) == scaleLinear(Num(0), Num(1), Num(0), radius, value)

levels == <<Num(0), Frac(1, 4), Frac(1, 2), Frac(3, 4), Num(1)>>

\* (Math.cos(angle(i) - Math.PI / 2) * d, Math.sin(angle(i) - Math.PI / 2) * d)
onAxis(n, i, d) == Polar(FSub(angle(n, i), Frac(1, 2)), d)

\* d3.lineRadial puts (a, d) at (d * sin(a), -d * cos(a)); no data, no path data
radialLine(data) ==
    [k \in DOMAIN data |->
        Polar(FSub(angle(Len(data), k - 1), Frac(1, 2)), r(data[k].value))]

\* mutant: the path is appended only when there is data
polygonIfData(data) ==
    IF data = << >>
    THEN << >>
    ELSE <<[d |-> radialLine(data), fill |-> "rgba(31, 119, 180, 0.12)"]>>

\* g.append("path").attr("d", radialLine(values) ?? "")
polygon(data) == <<[d |-> radialLine(data), fill |-> "rgba(31, 119, 180, 0.12)"]>>

RadarChartDraw(items, title) ==
    LET data == Data(items)
        n == Len(data)
    IN  [EmptySvg EXCEPT
            !.rings = [k \in DOMAIN levels |-> [r |-> r(levels[k])]],
            !.spokes = [k \in DOMAIN data |-> [from |-> Polar(Num(0), Num(0)),
                                               to |-> onAxis(n, k - 1, radius)]],
            !.ringLabels = [k \in DOMAIN levels |->
                               [y |-> FSub(Num(0), r(levels[k])),
                                text |-> format3f(levels[k])]],
            !.axisLabels = [k \in DOMAIN data |->
                               [at |-> onAxis(n, k - 1, FAdd(radius, Num(labelOffset))),
                                text |-> data[k].label]],
            !.paths = polygon(data),
            !.points = [k \in DOMAIN data |->
                           [at |-> onAxis(n, k - 1, r(data[k].value)),
                            r |-> Frac(7, 2),
                            strokeWidth |-> 1,
                            fill |-> "#ffffff",
                            title |-> data[k].label \o ": " \o format3f(data[k].value)]],
            !.texts = <<title>>]

(***************************************************************************)
(* The effect of a chart component and its cleanup.                        *)
(***************************************************************************)
Draw(props) ==
    IF props.kind = "bar"
    THEN BarChartDraw(props.items, props.title)
    ELSE RadarChartDraw(props.items, props.title)

\* mutant: the children of the <svg> are kept
ClearNothing(held) == held

\* svg.selectAll("*").remove()
Clear(held) == EmptySvg

NewTooltip == [opacity |-> "0", html |-> "", left |-> ""]

\* mutant: a tooltip is appended by every run
EnsureTooltipAppended(held) == Append(held, NewTooltip)

\* the container's .d3-tooltip is reused, or appended when there is none
EnsureTooltip(held) == IF held = << >> THEN <<NewTooltip>> ELSE held

\* BarChart returns () => tooltip.remove(); RadarChart returns no cleanup
Cleanup(kind, held) == IF kind = "bar" THEN << >> ELSE held

RunEffect(props, heldSvg, heldTooltip) ==
    /\ svg' = AppendAll(Clear(heldSvg), Draw(props))
    /\ tooltip' = EnsureTooltip(heldTooltip)
    /\ renders' = IF renders = "none" THEN "once" ELSE "again"
    /\ hovered' = Absent
    /\ focused' = Absent

ChartInit ==
    /\ LoaderIdle
    /\ upstream = Absent
    /\ PageIdle
    /\ ChartIdle
    /\ LabelIdle

\* the component mounts and its effect runs
ChartMount(kind, items, title) ==
    /\ chart = Absent
    /\ chart' = Some([kind |-> kind, items |-> items, title |-> title])
    /\ RunEffect(chart'[1], svg, tooltip)
    /\ UNCHANGED <<loaderVars, pageVars, labelVars>>

\* the props a re-render may bring: an item more, an item less, another title,
\* or equal props in a new array
NextProps(props) ==
    {[props EXCEPT !.items = Append(@, it)] :
        it \in {c \in ChartItems : Len(props.items) < MaxItems}}
    \cup {[props EXCEPT !.items = Tail(@)] : k \in {j \in {1} : props.items # << >>}}
    \cup {[props EXCEPT !.title = t] : t \in ChartTitles}

\* a dependency changed: the cleanup of the last run, then the effect again
ChartRerender(props) ==
    /\ chart # Absent
    /\ props \in NextProps(chart[1])
    /\ chart' = Some(props)
    /\ RunEffect(props, svg, Cleanup(props.kind, tooltip))
    /\ UNCHANGED <<loaderVars, pageVars, labelVars>>

\* the component unmounts: the cleanup runs and its DOM is removed
ChartUnmount ==
    /\ chart # Absent
    /\ chart' = Absent
    /\ svg' = EmptySvg
    /\ tooltip' = << >>
    /\ renders' = "none"
    /\ hovered' = Absent
    /\ focused' = Absent
    /\ UNCHANGED <<loaderVars, pageVars, labelVars>>

ChartNext ==
    \/ \E kind \in {"bar", "radar"}, items \in SeqUpTo(ChartItems, MaxItems),
          title \in ChartTitles : ChartMount(kind, items, title)
    \/ \E props \in (IF chart = Absent THEN {} ELSE NextProps(chart[1])) :
          ChartRerender(props)
    \/ ChartUnmount

ChartSpec == ChartInit /\ [][ChartNext]_vars

(***************************************************************************)
(* What the properties of the charts read from the mounted chart.          *)
(***************************************************************************)
Mounted(kind) == chart # Absent /\ chart[1].kind = kind

Items == chart[1].items

\* clockwise from straight up, in degrees
Bearing(p) == FAdd(FMul(p.theta, Num(180)), Num(90))

Texts(elements) == [k \in DOMAIN elements |-> elements[k].text]

(***************************************************************************)
(* C16: the bar chart draws exactly one bar per item, and the bar of an    *)
(* item with value v in [0, 1] is v times the inner plot height high       *)
(* (240 at the default height 360): half of it for 0.5, 0 for 0, all of it *)
(* for 1.  Arithmetic is exact here; the code computes in doubles.         *)
(***************************************************************************)
C16_BarHeights ==
    Mounted("bar") =>
        /\ innerHeight = 240
        /\ Len(svg.bars) = Len(Items)
        /\ \A i \in DOMAIN Items :
              Items[i].score # Absent =>
                  /\ svg.bars[i].height = FMul(Items[i].score[1], Num(240))
                  /\ Items[i].score[1] = Frac(1, 2) => svg.bars[i].height = Num(120)
                  /\ Items[i].score[1] = Num(0) => svg.bars[i].height = Num(0)
                  /\ Items[i].score[1] = Num(1) => svg.bars[i].height = Num(240)

C16_Witness ==
    /\ Mounted("bar")
    /\ Len(Items) = 3
    /\ Items[1].score = Some(Frac(1, 2)) /\ svg.bars[1].height = Num(120)
    /\ Items[2].score = Some(Num(1)) /\ svg.bars[2].height = Num(240)
    /\ Items[3].score = Some(Num(0)) /\ svg.bars[3].height = Num(0)

(***************************************************************************)
(* C17 as stated: the value-axis tick labels of the bar chart (domain      *)
(* [0, 1], 5 ticks requested, 3 decimals) include the label "0.500".       *)
(***************************************************************************)
C17_HasHalfLabel ==
    Mounted("bar") => \E k \in DOMAIN svg.yTicks : svg.yTicks[k].text = "0.500"

(***************************************************************************)
(* C17 amended: the value-axis tick labels of the bar chart are "0.000",   *)
(* "0.200", "0.400", "0.600", "0.800" and "1.000", from the category axis  *)
(* upwards in steps of a fifth of the inner height; "0.500" is not one.    *)
(***************************************************************************)
C17_TickLabels ==
    Mounted("bar") =>
        /\ Texts(svg.yTicks) = <<"0.000", "0.200", "0.400", "0.600", "0.800", "1.000">>
        /\ \A k \in DOMAIN svg.yTicks : svg.yTicks[k].y = Num(240 - 48 * (k - 1))

C17_Witness ==
    /\ Mounted("bar")
    /\ Len(svg.yTicks) = 6
    /\ svg.yTicks[2].text = "0.200"
    /\ svg.yTicks[6].y = Num(0)

(***************************************************************************)
(* C18 as stated: a radar chart with no items holds the 5 grid rings and   *)
(* the title, no spoke, no vertex marker, no axis label and no polygon     *)
(* path element.                                                           *)
(***************************************************************************)
C18_NoPathElement ==
    (Mounted("radar") /\ Items = << >>) =>
        /\ Len(svg.rings) = 5
        /\ svg.texts = <<chart[1].title>>
        /\ svg.spokes = << >>
        /\ svg.points = << >>
        /\ svg.axisLabels = << >>
        /\ svg.paths = << >>

(***************************************************************************)
(* C18 amended: a radar chart with no items holds the 5 grid rings (radii  *)
(* 0, 42.5, 85, 127.5, 170), their 5 tick labels, the title, and one       *)
(* polygon path element whose path data is empty; it holds no spoke, no    *)
(* vertex marker and no axis label.                                        *)
(***************************************************************************)
C18_EmptyRadar ==
    (Mounted("radar") /\ Items = << >>) =>
        /\ svg.rings = <<[r |-> Num(0)], [r |-> Frac(85, 2)], [r |-> Num(85)],
                         [r |-> Frac(255, 2)], [r |-> Num(170)]>>
        /\ Texts(svg.ringLabels) = <<"0.000", "0.250", "0.500", "0.750", "1.000">>
        /\ svg.texts = <<chart[1].title>>
        /\ svg.spokes = << >>
        /\ svg.points = << >>
        /\ svg.axisLabels = << >>
        /\ Len(svg.paths) = 1
        /\ svg.paths[1].d = << >>
        /\ svg.bars = << >> /\ svg.xTicks = << >> /\ svg.yTicks = << >>

C18_Witness ==
    /\ Mounted("radar")
    /\ Items = << >>
    /\ Len(svg.rings) = 5
    /\ Len(svg.paths) = 1

(***************************************************************************)
(* C19: in a radar chart of n >= 1 items the spoke, the axis label and the *)
(* vertex marker of axis k (0 <= k < n) lie k * 360 / n degrees clockwise  *)
(* from straight up, so axis 0 points up, the axes are equally spaced and  *)
(* no two coincide; the outer radius is min(640, 500) / 2 - 80 = 170 and   *)
(* a value v is drawn v * 170 from the centre.                             *)
(***************************************************************************)
C19_Value(k) == IF Items[k + 1].score = Absent THEN Num(0) ELSE Items[k + 1].score[1]

C19_AxisAngles ==
    (Mounted("radar") /\ Items # << >>) =>
        LET n == Len(Items)
        IN  /\ radius = Num(170)
            /\ Len(svg.spokes) = n /\ Len(svg.axisLabels) = n /\ Len(svg.points) = n
            /\ \A k \in 0..(n - 1) :
                  /\ Bearing(svg.spokes[k + 1].to) = Frac(k * 360, n)
                  /\ Bearing(svg.axisLabels[k + 1].at) = Frac(k * 360, n)
                  /\ Bearing(svg.points[k + 1].at) = Frac(k * 360, n)
                  /\ Bearing(svg.paths[1].d[k + 1]) = Frac(k * 360, n)
                  /\ svg.spokes[k + 1].to.rho = Num(170)
                  /\ svg.points[k + 1].at.rho = FMul(C19_Value(k), Num(170))
                  /\ svg.paths[1].d[k + 1].rho = FMul(C19_Value(k), Num(170))
                  /\ FLess(Bearing(svg.spokes[k + 1].to), Num(360))
            /\ \A j, k \in 0..(n - 1) :
                  j # k => svg.spokes[j + 1].to # svg.spokes[k + 1].to
            /\ \A k \in 1..(n - 1) :
                  FSub(Bearing(svg.spokes[k + 1].to), Bearing(svg.spokes[k].to))
                      = Frac(360, n)

C19_Witness ==
    /\ Mounted("radar")
    /\ Len(Items) = 3
    /\ Bearing(svg.spokes[1].to) = Num(0)
    /\ Bearing(svg.spokes[2].to) = Num(120)
    /\ Bearing(svg.spokes[3].to) = Num(240)
    /\ Items[2].score = Some(Frac(1, 2))
    /\ svg.points[2].at = Polar(Frac(1, 6), Num(85))

(***************************************************************************)
(* C20: rendering is clear-and-rebuild: after any sequence of renders of a *)
(* bar or radar chart the content of the <svg> is what the last (items,    *)
(* title) alone draws, nothing of earlier renders remains, and rendering   *)
(* equal props again leaves the content as it is.                          *)
(***************************************************************************)
C20_State == chart # Absent => svg = Draw(chart[1])

C20_Step == (chart # Absent /\ ChartRerender(chart[1])) => svg' = svg

C20_ClearAndRebuild == []C20_State /\ [][C20_Step]_vars

C20_Witness ==
    /\ Mounted("bar")
    /\ renders = "again"
    /\ Len(Items) = 1
    /\ Len(svg.bars) = 1
    /\ svg.texts = <<chart[1].title, "Data Type", "Association Score">>

(***************************************************************************)
(* The active tab of row i under a tab mapping.                            *)
(***************************************************************************)
TabOf(tabs, i) == IF Rows[i].id \in DOMAIN tabs THEN tabs[Rows[i].id] ELSE 0

SameId(i, j) == Rows[i].id = Rows[j].id

(***************************************************************************)
(* C23 as stated: selecting a tab for row r leaves every other row's       *)
(* active tab and the expanded row unchanged, and toggling a row leaves    *)
(* every row's active tab unchanged.                                       *)
(***************************************************************************)
C23_EveryOtherRowStep ==
    /\ \A i \in 1..MaxTableRows, value \in {0, 1} :
          ChangeTab(i, value) =>
              /\ openId' = openId
              /\ \A j \in DOMAIN Rows \ {i} : TabOf(tabById', j) = TabOf(tabById, j)
    /\ \A i \in 1..MaxTableRows :
          ClickToggle(i) => \A j \in DOMAIN Rows : TabOf(tabById', j) = TabOf(tabById, j)

C23_EveryOtherRow == [][C23_EveryOtherRowStep]_vars

(***************************************************************************)
(* C23 amended: the tab state is a mapping from row id to tab owned by     *)
(* the table.  Selecting a tab for row r changes only the entry of r's id: *)
(* the active tab of every row with another id and the expanded row are    *)
(* unchanged, while the rows sharing r's id take the selected tab.         *)
(* Toggling a row leaves every row's active tab unchanged.                 *)
(***************************************************************************)
C23_OtherIdsStep ==
    /\ \A i \in 1..MaxTableRows, value \in {0, 1} :
          ChangeTab(i, value) =>
              /\ openId' = openId
              /\ DOMAIN tabById' = DOMAIN tabById \cup {Rows[i].id}
              /\ \A id \in DOMAIN tabById \ {Rows[i].id} : tabById'[id] = tabById[id]
              /\ \A j \in DOMAIN Rows :
                    TabOf(tabById', j) = IF SameId(i, j) THEN value ELSE TabOf(tabById, j)
    /\ \A i \in 1..MaxTableRows :
          ClickToggle(i) =>
              /\ tabById' = tabById
              /\ \A j \in DOMAIN Rows : TabOf(tabById', j) = TabOf(tabById, j)

C23_OtherIds == [][C23_OtherIdsStep]_vars

C23_Witness ==
    /\ Rendered
    /\ \E i, j \in DOMAIN Rows :
          /\ ~SameId(i, j)
          /\ RowExpanded(view, i)
          /\ SelectedTab(view, i) = 0
          /\ Rows[i].id \in changed
          /\ TabOf(tabById, j) = 1

(***************************************************************************)
(* C26: when the rows have pairwise distinct ids at most one row is        *)
(* expanded in every state toggle clicks can reach, and expanding row B    *)
(* while row A is expanded collapses A.                                    *)
(***************************************************************************)
C26_DistinctIds == \A i, j \in DOMAIN Rows : i # j => ~SameId(i, j)

C26_Open(v, i) ==
    \/ v[1][i].toggleLabel = "Collapse row"
    \/ v[1][i].tabs # << >>
    \/ v[1][i].charts # << >>

C26_State ==
    (Rendered /\ C26_DistinctIds) =>
        Cardinality({i \in DOMAIN Rows : C26_Open(view, i)}) <= 1

C26_Step ==
    \A a, b \in 1..MaxTableRows :
        (/\ Rendered
         /\ C26_DistinctIds
         /\ a \in DOMAIN Rows
         /\ a # b
         /\ RowExpanded(view, a)
         /\ ClickToggle(b))
        => (RowCollapsed(view', a) /\ RowExpanded(view', b))

C26_AtMostOneExpanded == []C26_State /\ [][C26_Step]_vars

C26_Witness ==
    /\ Rendered
    /\ C26_DistinctIds
    /\ Len(Rows) = 3
    /\ RowCollapsed(view, 1)
    /\ RowCollapsed(view, 2)
    /\ RowExpanded(view, 3)
    /\ changed # {}

(***************************************************************************)
(* C27: rows sharing an id are expanded or collapsed together and have the *)
(* same active tab in every reachable state; toggling one or switching     *)
(* the tab of one does the same to the other.                              *)
(***************************************************************************)
C27_State ==
    Rendered =>
        \A i, j \in DOMAIN Rows :
            SameId(i, j) =>
                /\ view[1][i].toggleLabel = view[1][j].toggleLabel
                /\ view[1][i].tabs = view[1][j].tabs
                /\ RowExpanded(view, i) <=> RowExpanded(view, j)
                /\ TabOf(tabById, i) = TabOf(tabById, j)

C27_Step ==
    \A i, j \in 1..MaxTableRows :
        (Rendered /\ i \in DOMAIN Rows /\ j \in DOMAIN Rows /\ SameId(i, j)) =>
            /\ ClickToggle(i) =>
                  /\ RowExpanded(view, i) => RowCollapsed(view', j)
                  /\ RowCollapsed(view, i) => RowExpanded(view', j)
            /\ \A value \in {0, 1} :
                  ChangeTab(i, value) => SelectedTab(view', j) = value

C27_SameIdSameState == []C27_State /\ [][C27_Step]_vars

C27_Witness ==
    /\ Rendered
    /\ \E i, j \in DOMAIN Rows :
          /\ i # j
          /\ SameId(i, j)
          /\ Rows[i].id = ""
          /\ RowExpanded(view, i)
          /\ RowExpanded(view, j)
          /\ SelectedTab(view, i) = 1
          /\ SelectedTab(view, j) = 1

(***************************************************************************)
(* C28: a row's radar selection survives collapsing: every step other than *)
(* a tab change on that row (collapsing it, expanding other rows, changing *)
(* other rows' tabs) keeps it, and re-expanding the row shows the radar    *)
(* tab selected and the radar chart.                                       *)
(***************************************************************************)
C28_Radar(tabs, id) == id \in DOMAIN tabs /\ tabs[id] = 1

C28_Step ==
    /\ \A id \in DOMAIN tabById :
          (/\ C28_Radar(tabById, id)
           /\ ~(\E i \in DOMAIN Rows : Rows[i].id = id /\ ChangeTab(i, 0)))
          => C28_Radar(tabById', id)
    /\ \A i \in 1..MaxTableRows :
          (/\ Rendered
           /\ i \in DOMAIN Rows
           /\ RowCollapsed(view, i)
           /\ C28_Radar(tabById, Rows[i].id)
           /\ ClickToggle(i))
          => /\ RowExpanded(view', i)
             /\ SelectedTab(view', i) = 1
             /\ view'[1][i].charts[1].kind = "radar"

C28_TabSurvivesCollapse == [][C28_Step]_vars

C28_Witness ==
    /\ Rendered
    /\ \E i, j \in DOMAIN Rows :
          /\ ~SameId(i, j)
          /\ Rows[j].id \in changed
          /\ C28_Radar(tabById, Rows[i].id)
          /\ C28_Radar(tabById, Rows[j].id)
          /\ RowCollapsed(view, j)
          /\ RowExpanded(view, i)
          /\ SelectedTab(view, i) = 1

(***************************************************************************)
(* C25: after any sequence of renders and cleanups of a chart component    *)
(* its container holds at most one tooltip element.                        *)
(***************************************************************************)
C25_AtMostOneTooltip ==
    /\ Len(tooltip) <= 1
    /\ chart # Absent => Len(tooltip) = 1

C25_Witness ==
    /\ Mounted("radar")
    /\ renders = "again"
    /\ Len(tooltip) = 1

(***************************************************************************)
(* C30: the bars stay inside the plot: the top of the bar of an item with  *)
(* value in [0, 1] lies within [0, innerHeight] and top plus height is     *)
(* innerHeight; when the formatted labels are pairwise distinct the bars   *)
(* are equally wide and their x intervals are pairwise disjoint and lie    *)
(* within [0, innerWidth].                                                 *)
(***************************************************************************)
C30_AtMost(a, b) == ~FLess(b, a)

C30_Label(i) == formatLabel(Items[i].id)

C30_DistinctLabels == \A i, j \in DOMAIN Items : i # j => C30_Label(i) # C30_Label(j)

C30_Right(bar) == FAdd(bar.x, bar.width)

C30_BarsInsidePlot ==
    Mounted("bar") =>
        /\ innerWidth = 550
        /\ \A i \in DOMAIN Items :
              /\ C30_AtMost(Num(0), svg.bars[i].y)
              /\ C30_AtMost(svg.bars[i].y, Num(innerHeight))
              /\ FAdd(svg.bars[i].y, svg.bars[i].height) = Num(innerHeight)
        /\ C30_DistinctLabels =>
              /\ \A i, j \in DOMAIN Items : svg.bars[i].width = svg.bars[j].width
              /\ \A i \in DOMAIN Items :
                    /\ C30_AtMost(Num(0), svg.bars[i].x)
                    /\ FLess(svg.bars[i].x, C30_Right(svg.bars[i]))
                    /\ C30_AtMost(C30_Right(svg.bars[i]), Num(innerWidth))
              /\ \A i, j \in DOMAIN Items :
                    i # j =>
                        \/ C30_AtMost(C30_Right(svg.bars[i]), svg.bars[j].x)
                        \/ C30_AtMost(C30_Right(svg.bars[j]), svg.bars[i].x)

C30_Witness ==
    /\ Mounted("bar")
    /\ Len(Items) = 3
    /\ C30_DistinctLabels
    /\ svg.bars[1].x = Frac(50, 1) /\ svg.bars[1].width = Frac(350, 3)
    /\ svg.bars[3].x = Frac(1150, 3)
    /\ svg.bars[2].y = Num(120)

(***************************************************************************)
(* formatLabel applied to a word.                                          *)
(***************************************************************************)
MaxWord == 3

\* lower case, upper case, the underscore and the space
LabelChars == {"a", "b", "D", "_", " "}

LabelWords ==
    SeqUpTo(LabelChars, MaxWord)
    \cup {Chars("known_drug"), Chars("genetic_association"), Chars("literature")}

LabelInit ==
    /\ LoaderIdle
    /\ upstream = Absent
    /\ PageIdle
    /\ ChartIdle
    /\ word \in LabelWords
    /\ formatted = Absent

FormatLabel ==
    /\ formatted = Absent
    /\ formatted' = Some(formatChars(word))
    /\ UNCHANGED <<word, loaderVars, pageVars, chartVars>>

LabelNext == FormatLabel

LabelSpec == LabelInit /\ [][LabelNext]_vars

(***************************************************************************)
(* C22: formatLabel replaces every underscore by a space and upper-cases   *)
(* the first character of each space-separated word, leaving every other   *)
(* character as it is (known_drug -> "Known Drug", genetic_association ->  *)
(* "Genetic Association", literature -> "Literature"); both charts label   *)
(* their categories with the result.                                       *)
(***************************************************************************)
C22_Upper(c) ==
    CASE c = "a" -> "A" [] c = "b" -> "B" [] c = "d" -> "D" [] c = "g" -> "G"
      [] c = "k" -> "K" [] c = "l" -> "L" [] OTHER -> c

C22_Spaced(c) == IF c = "_" THEN " " ELSE c

C22_Expected(cs) ==
    [i \in DOMAIN cs |->
        IF i = 1 \/ C22_Spaced(cs[i - 1]) = " "
        THEN C22_Upper(C22_Spaced(cs[i]))
        ELSE C22_Spaced(cs[i])]

C22_Item(id) == <<[id |-> id, score |-> Absent]>>

C22_FormatLabel ==
    /\ formatted # Absent =>
          /\ formatted[1] = C22_Expected(word)
          /\ word = Chars("known_drug") => Join(formatted[1]) = "Known Drug"
          /\ word = Chars("genetic_association") => Join(formatted[1]) = "Genetic Association"
          /\ word = Chars("literature") => Join(formatted[1]) = "Literature"
    /\ BarChartDraw(C22_Item("known_drug"), "").xTicks = <<"Known Drug">>
    /\ RadarChartDraw(C22_Item("genetic_association"), "").axisLabels[1].text
          = "Genetic Association"

C22_Witness ==
    /\ word = <<"a", "_", "b">>
    /\ formatted = Some(<<"A", " ", "B">>)

(***************************************************************************)
(* Pointer and keyboard events on the bars of a bar chart and on the       *)
(* vertex markers of a radar chart.  The handlers were attached by the     *)
(* last effect run and write to the elements it drew and to its tooltip.   *)
(***************************************************************************)
MaxMarkers == 2

HoverItems ==
    {[id |-> "known_drug", score |-> Some(Frac(1, 2))],
     [id |-> "literature", score |-> Absent]}

Datum(i) == Data(chart[1].items)[i]

\* `<strong>${d.label}</strong><br/>Score: ${fmt(d.value)}`
TooltipHtml(d) == "<strong>" \o d.label \o "</strong><br/>Score: " \o format3f(d.value)

IsElement(kind, i) ==
    /\ chart # Absent
    /\ chart[1].kind = kind
    /\ i \in DOMAIN chart[1].items

\* bars.on("mouseenter") and bars.on("focus")
barOver(i) ==
    /\ svg' = [svg EXCEPT !.bars[i].fill = "#1669a8"]
    /\ tooltip' = <<[tooltip[1] EXCEPT !.opacity = "1", !.html = TooltipHtml(Datum(i))]>>

\* mutant: the fill is restored, the tooltip stays
barOutKeepsTooltip(i) ==
    /\ svg' = [svg EXCEPT !.bars[i].fill = "#1f77b4"]
    /\ tooltip' = tooltip

\* bars.on("mouseleave") and bars.on("blur")
barOut(i) ==
    /\ svg' = [svg EXCEPT !.bars[i].fill = "#1f77b4"]
    /\ tooltip' = <<[tooltip[1] EXCEPT !.opacity = "0"]>>

BarMouseEnter(i) ==
    /\ IsElement("bar", i)
    /\ hovered = Absent
    /\ hovered' = Some(i)
    /\ barOver(i)
    /\ UNCHANGED <<chart, renders, focused, loaderVars, pageVars, labelVars>>

\* bars.on("mousemove"): the tooltip follows the pointer
BarMouseMove(i) ==
    /\ IsElement("bar", i)
    /\ hovered = Some(i)
    /\ tooltip' = <<[tooltip[1] EXCEPT !.left = "pointer"]>>
    /\ UNCHANGED <<chart, svg, renders, hovered, focused, loaderVars, pageVars, labelVars>>

BarMouseLeave(i) ==
    /\ IsElement("bar", i)
    /\ hovered = Some(i)
    /\ hovered' = Absent
    /\ barOut(i)
    /\ UNCHANGED <<chart, renders, focused, loaderVars, pageVars, labelVars>>

BarFocus(i) ==
    /\ IsElement("bar", i)
    /\ focused = Absent
    /\ focused' = Some(i)
    /\ barOver(i)
    /\ UNCHANGED <<chart, renders, hovered, loaderVars, pageVars, labelVars>>

BarBlur(i) ==
    /\ IsElement("bar", i)
    /\ focused = Some(i)
    /\ focused' = Absent
    /\ barOut(i)
    /\ UNCHANGED <<chart, renders, hovered, loaderVars, pageVars, labelVars>>

highlightPoint(held, i) ==
    [held EXCEPT !.points[i].r = Num(6),
                 !.points[i].strokeWidth = 2,
                 !.paths[1].fill = "rgba(31, 119, 180, 0.18)"]

resetPoint(held, i) ==
    [held EXCEPT !.points[i].r = Frac(7, 2),
                 !.points[i].strokeWidth = 1,
                 !.paths[1].fill = "rgba(31, 119, 180, 0.12)"]

\* the tooltip is shown at the marker
showTooltipAtPoint(held, i) ==
    <<[held[1] EXCEPT !.opacity = "1",
                      !.html = TooltipHtml(Datum(i)),
                      !.left = "point " \o ToString(i)]>>

hideTooltip(held) == <<[held[1] EXCEPT !.opacity = "0"]>>

PointMouseEnter(i) ==
    /\ IsElement("radar", i)
    /\ hovered = Absent
    /\ hovered' = Some(i)
    /\ svg' = highlightPoint(svg, i)
    /\ tooltip' = showTooltipAtPoint(tooltip, i)
    /\ UNCHANGED <<chart, renders, focused, loaderVars, pageVars, labelVars>>

PointMouseLeave(i) ==
    /\ IsElement("radar", i)
    /\ hovered = Some(i)
    /\ hovered' = Absent
    /\ svg' = resetPoint(svg, i)
    /\ tooltip' = hideTooltip(tooltip)
    /\ UNCHANGED <<chart, renders, focused, loaderVars, pageVars, labelVars>>

PointFocus(i) ==
    /\ IsElement("radar", i)
    /\ focused = Absent
    /\ focused' = Some(i)
    /\ svg' = highlightPoint(svg, i)
    /\ tooltip' = showTooltipAtPoint(tooltip, i)
    /\ UNCHANGED <<chart, renders, hovered, loaderVars, pageVars, labelVars>>

PointBlur(i) ==
    /\ IsElement("radar", i)
    /\ focused = Some(i)
    /\ focused' = Absent
    /\ svg' = resetPoint(svg, i)
    /\ tooltip' = hideTooltip(tooltip)
    /\ UNCHANGED <<chart, renders, hovered, loaderVars, pageVars, labelVars>>

HoverProps ==
    [kind : {"bar", "radar"}, items : SeqUpTo(HoverItems, MaxMarkers), title : ChartTitles]

HoverNext ==
    \/ \E props \in HoverProps : ChartMount(props.kind, props.items, props.title)
    \/ \E props \in (IF chart = Absent THEN {} ELSE NextProps(chart[1]) \cap HoverProps) :
          ChartRerender(props)
    \/ ChartUnmount
    \/ \E i \in 1..MaxMarkers :
          \/ BarMouseEnter(i)
          \/ BarMouseMove(i)
          \/ BarMouseLeave(i)
          \/ BarFocus(i)
          \/ BarBlur(i)
          \/ PointMouseEnter(i)
          \/ PointMouseLeave(i)
          \/ PointFocus(i)
          \/ PointBlur(i)

HoverSpec == ChartInit /\ [][HoverNext]_vars

(***************************************************************************)
(* What the interaction properties read from the chart.                    *)
(***************************************************************************)
TooltipShown(held) == held # << >> /\ held[1].opacity = "1"

BarDark(held, i) == held.bars[i].fill = "#1669a8"

PointLarge(held, i) == held.points[i].r = Num(6)

PolygonIntense(held) == held.paths[1].fill = "rgba(31, 119, 180, 0.18)"

\* nothing is highlighted and the tooltip is hidden
Calm(heldSvg, heldTooltip) ==
    /\ ~TooltipShown(heldTooltip)
    /\ \A i \in DOMAIN heldSvg.bars : heldSvg.bars[i].fill = "#1f77b4"
    /\ \A i \in DOMAIN heldSvg.points :
          heldSvg.points[i].r = Frac(7, 2) /\ heldSvg.points[i].strokeWidth = 1
    /\ \A i \in DOMAIN heldSvg.paths : heldSvg.paths[i].fill = "rgba(31, 119, 180, 0.12)"

Geometry(held) ==
    [i \in DOMAIN held.bars |->
        <<held.bars[i].x, held.bars[i].y, held.bars[i].width, held.bars[i].height>>]

(***************************************************************************)
(* C21: no interaction state is carried over a re-render: after a          *)
(* re-render of a bar or radar chart, also one that happens while an       *)
(* element is hovered or focused and the tooltip shows, nothing is         *)
(* highlighted and the tooltip is hidden, and it stays so until the next   *)
(* mouseenter or focus.                                                    *)
(***************************************************************************)
C21_Step ==
    /\ \A props \in HoverProps : ChartRerender(props) => Calm(svg', tooltip')
    /\ (/\ chart # Absent
        /\ chart' # Absent
        /\ Calm(svg, tooltip)
        /\ ~(\E i \in 1..MaxMarkers :
                BarMouseEnter(i) \/ BarFocus(i) \/ PointMouseEnter(i) \/ PointFocus(i)))
          => Calm(svg', tooltip')

C21_NothingCarriedOver == [][C21_Step]_vars

(***************************************************************************)
(* C24: a mouseenter or focus on a bar gives that bar the darker fill and  *)
(* shows the tooltip with the bar's label and its value to 3 decimals; the *)
(* mouseleave or blur on that bar restores the base fill and hides the     *)
(* tooltip; none of these events moves or resizes a bar.                   *)
(***************************************************************************)
C24_Html(item) ==
    IF item.id = "known_drug"
    THEN "<strong>Known Drug</strong><br/>Score: 0.500"
    ELSE "<strong>Literature</strong><br/>Score: 0.000"

C24_Step ==
    \A i \in 1..MaxMarkers :
        /\ (BarMouseEnter(i) \/ BarFocus(i)) =>
              /\ BarDark(svg', i)
              /\ TooltipShown(tooltip')
              /\ tooltip'[1].html = C24_Html(Items[i])
              /\ Geometry(svg') = Geometry(svg)
        /\ (BarMouseLeave(i) \/ BarBlur(i)) =>
              /\ BarDark(svg, i) => ~BarDark(svg', i)
              /\ svg'.bars[i].fill = "#1f77b4"
              /\ ~TooltipShown(tooltip')
              /\ Geometry(svg') = Geometry(svg)

C24_BarInteraction == [][C24_Step]_vars

C24_Witness ==
    /\ Mounted("bar")
    /\ Len(Items) = 2
    /\ hovered = Some(1)
    /\ focused = Absent
    /\ BarDark(svg, 1)
    /\ ~BarDark(svg, 2)
    /\ TooltipShown(tooltip)
    /\ tooltip[1].html = "<strong>Known Drug</strong><br/>Score: 0.500"

(***************************************************************************)
(* C29: in a radar chart, under any interleaving of mouseenter/mouseleave  *)
(* and focus/blur on its vertex markers, the tooltip is visible and the    *)
(* polygon fill intensified exactly when some marker is hovered or         *)
(* focused, and a marker is enlarged exactly when it is itself hovered or  *)
(* focused.  Stated for a chart that has been rendered once.               *)
(***************************************************************************)
C29_Active(i) == hovered = Some(i) \/ focused = Some(i)

C29_HighlightFollowsPointerAndFocus ==
    (Mounted("radar") /\ renders = "once") =>
        /\ TooltipShown(tooltip) <=> (hovered # Absent \/ focused # Absent)
        /\ PolygonIntense(svg) <=> (hovered # Absent \/ focused # Absent)
        /\ \A i \in DOMAIN Items : PointLarge(svg, i) <=> C29_Active(i)

====
